---- MODULE Spec2Model ----
(***************************************************************************)
(* Earth Engine documentation notebooks (giswqs/earthengine-py-documentation)*)
(*                                                                         *)
(* Five notebooks, each a list of code cells executed top to bottom by a   *)
(* Jupyter kernel.  The model is an interpreter of the cells' statements:  *)
(*   - the bootstrap cell (import geehydro / pip install / ee.Initialize / *)
(*     ee.Authenticate), identical in the five notebooks;                  *)
(*   - the script cells: expression construction (client side only), the   *)
(*     geehydro map methods and getInfo(), which submit to the service.    *)
(* A statement that raises ends the run (Run All stops at the first cell   *)
(* that raises).  Every call into an external library may raise; which     *)
(* outcome happens is chosen by the environment.                           *)
(***************************************************************************)
EXTENDS Integers, Sequences, FiniteSets, TLC

VARIABLES
    nb,           \* the notebook being executed
    cell,         \* index of the code cell being executed (1 = bootstrap cell)
    pc,           \* index of the next statement of the cell
    boot,         \* position inside the bootstrap cell
    status,       \* "running", "failed" (a statement raised), "done"
    geehydro,     \* the kernel's environment: "present", "missing", "broken"
    credentials,  \* stored Earth Engine credentials: TRUE when valid
    initialized,  \* ee.Initialize() has returned successfully
    log,          \* calls into external libraries, in order, with outcome
    maps,         \* the folium.Map objects created so far
    Map,          \* the object the name Map is bound to (index in maps, 0 = unbound)
    bindings,     \* the kernel's namespace: the names bound so far
    inflight,     \* the request the kernel is blocked on (<<>> = none)
    requests,     \* the requests the service has answered, in order
    printed,      \* stdout of the cells: the values print() wrote
    displayed,    \* the rendered map outputs, in order
    catalog,      \* service side: the images of LANDSAT/LC08/C01/T1_TOA
    scenes,       \* service side: the images of LANDSAT/LC8_L1T_TOA
    pixels,       \* service side: the pixels of the image an expression reads
    mapped,       \* service side: the value of the last expression evaluated
    hist          \* the phases the run has gone through, in order

vars == <<nb, cell, pc, boot, status, geehydro, credentials, initialized, log,
          maps, Map, bindings, inflight, requests, printed, displayed,
          catalog, scenes, pixels, mapped, hist>>

(***************************************************************************)
(* Bounds of the model.                                                    *)
(***************************************************************************)
MaxImages == 2          \* images in the service's collection
MaxTime == 2            \* distinct system:time_start values
MaxScenes == 4          \* images in LANDSAT/LC8_L1T_TOA
MaxPixels == 2          \* pixels of an image

(***************************************************************************)
(* Statements of the code cells.  k: the kind of statement, v: the name it *)
(* binds (or the object it is called on), a: its argument (layer name,     *)
(* basemap option, the expression it evaluates), t: the Earth Engine type  *)
(* of the object it submits.                                               *)
(***************************************************************************)
NoName == "<no name>"

\* the object a statement hands to the client library: the name it is passed
\* under and, for an element of a mapped collection, the mapped function and
\* the index (index = -1: not an element of a collection)
NoObject == [name |-> "", f |-> "", index |-> 0 - 1]

object(name) == [name |-> name, f |-> "", index |-> 0 - 1]

\* ee.Image(collection.toList(3).get(i)), ee.Image(ndvi_images.toList(3).get(i))
element(name, f, i) == [name |-> name, f |-> f, index |-> i]

def(f) == [k |-> "def", v |-> f, a |-> "", t |-> "", o |-> NoObject]

construct(v, e) == [k |-> "construct", v |-> v, a |-> e, t |-> "", o |-> NoObject]

assign(v) == [k |-> "assign", v |-> v, a |-> "", t |-> "", o |-> NoObject]

foliumMap == [k |-> "folium.Map", v |-> "Map", a |-> "", t |-> "", o |-> NoObject]

setOptions(option) ==
    [k |-> "setOptions", v |-> "Map", a |-> option, t |-> "", o |-> NoObject]

setCenter == [k |-> "setCenter", v |-> "Map", a |-> "", t |-> "", o |-> NoObject]

centerObject(obj, type) ==
    [k |-> "centerObject", v |-> "Map", a |-> obj, t |-> type, o |-> object(obj)]

addLayer(obj, type, name) ==
    [k |-> "addLayer", v |-> "Map", a |-> name, t |-> type, o |-> object(obj)]

\* Map.addLayer(landsat, ...) / Map.addLayer(ndvi, ...) in the loop of the NDVI
\* cells: the object is element i of the collection, mapped by f for ndvi
addElementLayer(obj, f, i, name) ==
    [k |-> "addLayer", v |-> "Map", a |-> name, t |-> "Image", o |-> element(obj, f, i)]

getInfo(expr, type) ==
    [k |-> "getInfo", v |-> "", a |-> expr, t |-> type, o |-> object(expr)]

setControlVisibility ==
    [k |-> "setControlVisibility", v |-> "Map", a |-> "", t |-> "", o |-> NoObject]

display == [k |-> "display", v |-> "Map", a |-> "", t |-> "", o |-> NoObject]

\* Map = folium.Map(location=[40, -100], zoom_start=4); Map.setOptions('HYBRID')
MapCell == << foliumMap, setOptions("HYBRID") >>

\* Map.setControlVisibility(...); Map
DisplayCell == << setControlVisibility, display >>

(***************************************************************************)
(* Image/09_edge_detection.ipynb                                           *)
(***************************************************************************)
EdgeDetection ==
    << MapCell,
       << construct("image", "ee.Image.select"),
          construct("canny", "CannyEdgeDetector"),
          setCenter,
          addLayer("canny", "Image", "canny") >>,
       << construct("hough", "HoughTransform"),
          addLayer("hough", "Image", "hough") >>,
       << construct("image", "ee.Image.select"),
          addLayer("image", "Image", NoName),
          construct("fat", "Kernel.gaussian"),
          construct("skinny", "Kernel.gaussian"),
          construct("dog", "add"),
          construct("zeroXings", "convolve.zeroCrossing"),
          setCenter,
          addLayer("zeroXings.updateMask(zeroXings)", "Image", "zero crossings"),
          setControlVisibility,
          display >> >>

(***************************************************************************)
(* Image/03_image_metadata.ipynb (src/unnamed/part_001)                    *)
(***************************************************************************)
ImageMetadata ==
    << MapCell,
       << construct("image", "ee.Image"),
          addLayer("image", "Image", "Landsat image"),
          centerObject("image", "Image") >>,
       << construct("bandNames", "bandNames"),
          getInfo("bandNames", "List") >>,
       << construct("b1proj", "select.projection"),
          getInfo("b1proj", "Projection") >>,
       << construct("b1scale", "select.projection.nominalScale"),
          getInfo("b1scale", "Number") >>,
       << construct("b8scale", "select.projection.nominalScale"),
          getInfo("b8scale", "Number") >>,
       << construct("properties", "propertyNames"),
          getInfo("properties", "List") >>,
       << construct("cloudiness", "get"),
          getInfo("cloudiness", "ComputedObject") >>,
       << construct("date", "ee.Date"),
          getInfo("date", "Date") >>,
       << construct("date2", "format"),
          getInfo("date2", "String") >>,
       DisplayCell >>

(***************************************************************************)
(* ImageCollection/04_mapping_over_image_collection.ipynb                  *)
(* (src/unnamed/part_000)                                                  *)
(***************************************************************************)
RangeStart == 0
RangeStop == 3

\* the body of `for i in range(0, 3)` for one value of i, in the cell whose
\* ndvi_images is collection.map(f)
LoopBody(f, i) ==
    << construct("landsat", "ee.Image(collection.toList.get)"),
       construct("ndvi", "ee.Image(ndvi_images.toList.get)"),
       addElementLayer("landsat", "", i, "Landsat image " \o ToString(i + 1)),
       addElementLayer("ndvi", f, i, "NDVI image " \o ToString(i + 1)) >>

RECURSIVE ForRange(_, _, _)
ForRange(f, i, stop) ==
    IF i >= stop THEN << >> ELSE LoopBody(f, i) \o ForRange(f, i + 1, stop)

\* the NDVI cell from `point = ...` to the display, mapping the function f
NDVIScript(f) ==
    << construct("point", "ee.Geometry.Point"),
       construct("collection", "ImageCollection.filterBounds.sort.limit"),
       construct("ndvi_images", "map(" \o f \o ")"),
       assign("vizParams"),
       foliumMap,
       setOptions("HYBRID"),
       centerObject("point", "Geometry") >>
    \o ForRange(f, RangeStart, RangeStop)
    \o << setControlVisibility, display >>

MappingOverImageCollection ==
    << MapCell,
       << def("addTime"),
          construct("collection", "ImageCollection.filter.filter"),
          construct("first", "map(addTime).first"),
          getInfo("map(addTime).first().bandNames()", "List") >>,
       << construct("collection", "ImageCollection.filter.filter"),
          construct("first", "map(lambda).first"),
          getInfo("map(lambda).first().bandNames()", "List") >>,
       << def("conditional"),
          construct("collection", "ImageCollection.filter.filter"),
          construct("collection", "ImageCollection.filter.filter") >>,
       << def("calNDVI") >> \o NDVIScript("calNDVI"),
       NDVIScript("lambda") >>

(***************************************************************************)
(* Image/13_cumulative_cost_mapping.ipynb                                  *)
(***************************************************************************)
CumulativeCostMapping ==
    << MapCell,
       << construct("geometry", "ee.Geometry.Rectangle"),
          construct("sources", "ee.Image.toByte.paint"),
          construct("sources", "updateMask"),
          construct("cover", "ee.Image.select"),
          construct("cost", "eq.Or.multiply.add"),
          construct("cumulativeCost", "cumulativeCost"),
          setCenter,
          addLayer("cover", "Image", "Globcover"),
          addLayer("cumulativeCost", "Image", "accumulated cost"),
          addLayer("geometry", "Geometry", "source geometry") >>,
       DisplayCell >>

(***************************************************************************)
(* Image/12_object_based_methods.ipynb                                     *)
(***************************************************************************)
ObjectBasedMethods ==
    << MapCell,
       << construct("point", "ee.Geometry.Point"),
          construct("aoi", "buffer"),
          construct("kelvin", "ee.Image.select.clip"),
          setCenter,
          addLayer("kelvin", "Image", "Kelvin"),
          construct("hotspots", "gt.selfMask.rename"),
          addLayer("hotspots", "Image", "Hotspots") >>,
       << construct("objectId", "connectedComponents"),
          addLayer("objectId.randomVisualizer()", "Image", "Objects") >>,
       << construct("objectSize", "select.connectedPixelCount"),
          addLayer("objectSize", "Image", "Object n pixels") >>,
       << construct("pixelArea", "ee.Image.pixelArea"),
          construct("objectArea", "multiply"),
          addLayer("objectArea", "Image", "Object area m^2") >>,
       << construct("areaMask", "gte"),
          construct("objectId", "updateMask"),
          addLayer("objectId", "Image", "Large hotspots") >>,
       << construct("kelvin", "addBands"),
          construct("patchTemp", "reduceConnectedComponents"),
          addLayer("patchTemp", "Image", "Mean temperature") >>,
       DisplayCell >>

Notebooks ==
    { "09_edge_detection", "03_image_metadata",
      "04_mapping_over_image_collection", "13_cumulative_cost_mapping",
      "12_object_based_methods" }

\* the code cells of a notebook after its bootstrap cell
ScriptCells(n) ==
    CASE n = "09_edge_detection" -> EdgeDetection
      [] n = "03_image_metadata" -> ImageMetadata
      [] n = "04_mapping_over_image_collection" -> MappingOverImageCollection
      [] n = "13_cumulative_cost_mapping" -> CumulativeCostMapping
      [] n = "12_object_based_methods" -> ObjectBasedMethods

\* the statements of code cell c (c >= 2; cell 1 is the bootstrap cell)
Cell(n, c) == ScriptCells(n)[c - 1]

NumCells(n) == Len(ScriptCells(n)) + 1

(***************************************************************************)
(* The service: images, and the operations the mapped function uses.       *)
(***************************************************************************)
\* the bands of a Landsat 8 TOA image (recorded output of image.bandNames())
LandsatBands ==
    << "B1", "B2", "B3", "B4", "B5", "B6", "B7", "B8", "B9", "B10", "B11", "BQA" >>

WRS_PATH == 44
WRS_ROW == 34

\* an image of the collection: its bands (name, content) and its properties
Raster(names) == [i \in DOMAIN names |-> [name |-> names[i], value |-> "raster"]]

\* the images of the pool: of the path and row the notebook filters on, with
\* every time stamp, and one image of another path and one of another row
ImagePool ==
    { [bands |-> Raster(LandsatBands), path |-> WRS_PATH, row |-> WRS_ROW,
       time_start |-> t] : t \in 1..MaxTime }
    \cup { [bands |-> Raster(LandsatBands), path |-> WRS_PATH + 1, row |-> WRS_ROW,
            time_start |-> 1],
           [bands |-> Raster(LandsatBands), path |-> WRS_PATH, row |-> WRS_ROW + 1,
            time_start |-> 1] }

SeqsUpTo(S, n) == UNION { [1..m -> S] : m \in 0..n }

\* ee.ImageCollection(...).filter(eq('WRS_PATH', 44)).filter(eq('WRS_ROW', 34))
filterPathRow(coll) ==
    SelectSeq(SelectSeq(coll, LAMBDA im : im.path = WRS_PATH),
              LAMBDA im : im.row = WRS_ROW)

\* image.metadata(property): a constant image whose one band is named after
\* the property and holds its value
metadata(image, property) ==
    [image EXCEPT !.bands =
        << [name |-> property, value |-> ToString(image.time_start)] >>]

BandNameSet(image) == { image.bands[i].name : i \in DOMAIN image.bands }

\* image.addBands(src): the bands of image followed by the bands of src; a
\* band of src whose name image already has is renamed (overwrite = False)
addBands(image, src) ==
    [image EXCEPT !.bands = @ \o
        [i \in DOMAIN src.bands |->
            IF src.bands[i].name \in BandNameSet(image)
            THEN [src.bands[i] EXCEPT !.name = @ \o "_1"]
            ELSE src.bands[i]]]

\* variant: the function returns the timestamp image alone
addTimeAlone(image) == metadata(image, "system:time_start")

\* def addTime(image): return image.addBands(image.metadata('system:time_start'))
addTime(image) == addBands(image, metadata(image, "system:time_start"))

\* lambda image: image.addBands(image.metadata('system:time_start'))
lambdaAddTime(image) == addBands(image, metadata(image, "system:time_start"))

\* collection.map(f) for the two functions the notebook maps
mapCollection(f, coll) ==
    [i \in DOMAIN coll |->
        IF f = "addTime" THEN addTime(coll[i]) ELSE lambdaAddTime(coll[i])]

bandNames(image) == [i \in DOMAIN image.bands |-> image.bands[i].name]

\* the function a getInfo() expression maps over the collection ("" = none)
MappedFunction(expr) ==
    CASE expr = "map(addTime).first().bandNames()" -> "addTime"
      [] expr = "map(lambda).first().bandNames()" -> "lambda"
      [] OTHER -> ""

\* whether the service can evaluate the expression: first() of an empty
\* collection has no bands
Evaluable(expr, cat) ==
    MappedFunction(expr) = "" \/ filterPathRow(cat) # << >>

\* the value getInfo() returns for the expression, as print() shows it
Evaluate(expr, type, cat) ==
    IF MappedFunction(expr) # ""
    THEN bandNames(mapCollection(MappedFunction(expr), filterPathRow(cat))[1])
    ELSE IF expr = "bandNames" THEN LandsatBands
    ELSE << type >>

(***************************************************************************)
(* The service: the collection of the NDVI cells.                          *)
(***************************************************************************)
\* the CLOUD_COVER values of the images of LANDSAT/LC8_L1T_TOA
CloudCovers == { 10, 20 }

\* an image of LANDSAT/LC8_L1T_TOA: its cloud cover, and whether its
\* footprint intersects ee.Geometry.Point(-83.93, 35.85)
ScenePool == [CLOUD_COVER : CloudCovers, intersects : BOOLEAN]

\* the images of a dataset, each with its identity (its place in the dataset)
Dataset(images) ==
    [i \in DOMAIN images |->
        [id |-> i, CLOUD_COVER |-> images[i].CLOUD_COVER,
         intersects |-> images[i].intersects]]

\* collection.filterBounds(point)
filterBounds(coll) == SelectSeq(coll, LAMBDA im : im.intersects)

\* the sorted collection with one more image: after the images that are not
\* greater (images of equal value keep the order of the collection)
Insert(im, sorted, property) ==
    LET k == Cardinality({ j \in DOMAIN sorted : sorted[j][property] <= im[property] })
    IN  SubSeq(sorted, 1, k) \o << im >> \o SubSeq(sorted, k + 1, Len(sorted))

\* variant: descending order (sort(property, False))
RECURSIVE sortDescending(_, _)
sortDescending(coll, property) ==
    IF coll = << >> THEN << >>
    ELSE LET rest == sortDescending(SubSeq(coll, 1, Len(coll) - 1), property)
             im == coll[Len(coll)]
             k == Cardinality({ j \in DOMAIN rest : rest[j][property] >= im[property] })
         IN  SubSeq(rest, 1, k) \o << im >> \o SubSeq(rest, k + 1, Len(rest))

\* collection.sort(property): ascending
RECURSIVE sort(_, _)
sort(coll, property) ==
    IF coll = << >> THEN << >>
    ELSE Insert(coll[Len(coll)], sort(SubSeq(coll, 1, Len(coll) - 1), property), property)

\* collection.limit(max): the first max images
limit(coll, max) == SubSeq(coll, 1, IF Len(coll) < max THEN Len(coll) ELSE max)

\* collection.toList(count)
toList(coll, count) == SubSeq(coll, 1, IF Len(coll) < count THEN Len(coll) ELSE count)

LimitMax == 3
ToListCount == 3

\* ee.ImageCollection('LANDSAT/LC8_L1T_TOA').filterBounds(point)
\*     .sort('CLOUD_COVER').limit(3)
NDVICollection(sc) == limit(sort(filterBounds(sc), "CLOUD_COVER"), LimitMax)

\* image.normalizedDifference([first, second]): one band 'nd',
\* (first - second) / (first + second)
normalizedDifference(image, names) ==
    [id |-> image.id, band |-> "nd", first |-> names[1], second |-> names[2]]

\* def calNDVI(image): return image.normalizedDifference(['B5', 'B4'])
calNDVI(image) == normalizedDifference(image, << "B5", "B4" >>)

\* variant: the lambda with the bands the other way round
lambdaNDVISwapped(image) == normalizedDifference(image, << "B4", "B5" >>)

\* lambda image: image.normalizedDifference(['B5', 'B4'])
lambdaNDVI(image) == normalizedDifference(image, << "B5", "B4" >>)

\* collection.map(calNDVI), collection.map(lambda image: ...)
mapNDVI(f, coll) ==
    [i \in DOMAIN coll |-> IF f = "calNDVI" THEN calNDVI(coll[i]) ELSE lambdaNDVI(coll[i])]

IsElement(o) == o.index >= 0

\* List.get(i) needs 0 <= i < length of the list
ElementEvaluable(o, sc) ==
    IsElement(o) => o.index + 1 <= Len(toList(NDVICollection(sc), ToListCount))

\* ee.Image(collection.toList(3).get(i)), ee.Image(ndvi_images.toList(3).get(i))
ElementOf(o, sc) ==
    LET coll == NDVICollection(sc)
        images == IF o.name = "ndvi" THEN mapNDVI(o.f, coll) ELSE coll
    IN  toList(images, ToListCount)[o.index + 1]

\* what the service evaluates for a request: the collection it reads and the
\* value of the submitted object (<< >> where the model keeps none)
EvaluatedCollection(r, cat, sc) ==
    IF IsElement(r.o) THEN NDVICollection(sc)
    ELSE IF MappedFunction(r.a) # "" THEN filterPathRow(cat)
    ELSE << >>

EvaluatedValue(r, cat, sc) ==
    IF IsElement(r.o) THEN << ElementOf(r.o, sc) >>
    ELSE IF MappedFunction(r.a) # ""
    THEN mapCollection(MappedFunction(r.a), filterPathRow(cat))
    ELSE << >>

(***************************************************************************)
(* The service: the function conditional.                                  *)
(***************************************************************************)
\* the SUN_ELEVATION values of the images, around the threshold
SunElevations == { 39, 40, 41 }

SUN_ELEVATION_MIN == 40

\* an image of a collection with its solar elevation
SunPool ==
    { [bands |-> Raster(LandsatBands), path |-> p, row |-> WRS_ROW, SUN_ELEVATION |-> e] :
        p \in {WRS_PATH, WRS_PATH + 1}, e \in SunElevations }

\* ee.Image(value): a constant image, one band named 'constant'
constantImage(value) == [bands |-> << [name |-> "constant", value |-> ToString(value)] >>]

\* image.get(property)
get(image, property) == image[property]

\* variant: greater than or equal
gte(left, right) == IF left >= right THEN 1 ELSE 0

\* ee.Number(left).gt(right): 1 when left > right, otherwise 0
gt(left, right) == IF left > right THEN 1 ELSE 0

\* variant: the cases the other way round
IfSwapped(condition, trueCase, falseCase) ==
    IF condition # 0 THEN falseCase ELSE trueCase

\* ee.Algorithms.If(condition, trueCase, falseCase)
If(condition, trueCase, falseCase) ==
    IF condition # 0 THEN trueCase ELSE falseCase

\* def conditional(image): return ee.Algorithms.If(
\*     ee.Number(image.get('SUN_ELEVATION')).gt(40), image, ee.Image(0))
conditional(image) ==
    If(gt(get(image, "SUN_ELEVATION"), SUN_ELEVATION_MIN), image, constantImage(0))

\* collection.map(conditional)
mapConditional(coll) == [i \in DOMAIN coll |-> conditional(coll[i])]

(***************************************************************************)
(* The service: images as pixels.  An image is a band name and its pixels; *)
(* a pixel is a value and a mask (1 = valid, 0 = masked).                  *)
(***************************************************************************)
Min(a, b) == IF a < b THEN a ELSE b

\* ee.Image(name).select(band): the band of the stored image
band(name, px) ==
    [band |-> name, px |-> [i \in DOMAIN px |-> [value |-> px[i].value, mask |-> px[i].mask]]]

\* image.eq(value): 1 where the pixel equals the value, otherwise 0
eq(image, value) ==
    [image EXCEPT !.px = [i \in DOMAIN @ |->
        [value |-> IF @[i].value = value THEN 1 ELSE 0, mask |-> @[i].mask]]]

\* image.Or(image2): 1 where either pixel is non-zero, otherwise 0
Or(image, image2) ==
    [image EXCEPT !.px = [i \in DOMAIN @ |->
        [value |-> IF @[i].value # 0 \/ image2.px[i].value # 0 THEN 1 ELSE 0,
         mask |-> Min(@[i].mask, image2.px[i].mask)]]]

\* image.multiply(number)
multiply(image, number) ==
    [image EXCEPT !.px = [i \in DOMAIN @ |->
        [value |-> @[i].value * number, mask |-> @[i].mask]]]

\* image.add(image2)
add(image, image2) ==
    [image EXCEPT !.px = [i \in DOMAIN @ |->
        [value |-> @[i].value + image2.px[i].value,
         mask |-> Min(@[i].mask, image2.px[i].mask)]]]

\* the three class tests of the cost expression
CostOneClasses(cover) ==
    Or(Or(Or(eq(cover, 60), eq(cover, 80)), eq(cover, 110)), eq(cover, 140))

CostTwoClasses(cover) ==
    Or(Or(Or(Or(eq(cover, 40), eq(cover, 90)), eq(cover, 120)), eq(cover, 130)),
       eq(cover, 170))

CostThreeClasses(cover) ==
    Or(Or(Or(eq(cover, 50), eq(cover, 70)), eq(cover, 150)), eq(cover, 160))

\* variant: the calls chained one after the other instead of nested
costChained(cover) ==
    multiply(add(multiply(add(multiply(CostOneClasses(cover), 1),
                              CostTwoClasses(cover)), 2),
                 CostThreeClasses(cover)), 3)

\* cost = (classes of cost 1).multiply(1).add(
\*            (classes of cost 2).multiply(2).add((classes of cost 3).multiply(3)))
cost(cover) ==
    add(multiply(CostOneClasses(cover), 1),
        add(multiply(CostTwoClasses(cover), 2), multiply(CostThreeClasses(cover), 3)))

\* ee.Image(): value 0, masked everywhere
emptyImage(px) ==
    [band |-> "constant", px |-> [i \in DOMAIN px |-> [value |-> 0, mask |-> 0]]]

\* image.toByte(): the values as unsigned 8-bit integers
toByte(image) ==
    [image EXCEPT !.px = [i \in DOMAIN @ |->
        [value |-> IF @[i].value < 0 THEN 0 ELSE Min(@[i].value, 255),
         mask |-> @[i].mask]]]

\* image.paint(geometry, color): the pixels of the geometry get the color
paint(image, inside, color) ==
    [image EXCEPT !.px = [i \in DOMAIN @ |->
        IF inside[i] THEN [value |-> color, mask |-> 1] ELSE @[i]]]

\* variant: the mask kept where the mask image is zero
updateMaskInverted(image, maskImage) ==
    [image EXCEPT !.px = [i \in DOMAIN @ |->
        [value |-> @[i].value,
         mask |-> IF maskImage.px[i].mask # 0 /\ maskImage.px[i].value # 0
                  THEN 0 ELSE 1]]]

\* image.updateMask(mask): valid where the image is valid and the mask image
\* is valid and non-zero
updateMask(image, maskImage) ==
    [image EXCEPT !.px = [i \in DOMAIN @ |->
        [value |-> @[i].value,
         mask |-> IF @[i].mask # 0 /\ maskImage.px[i].mask # 0
                      /\ maskImage.px[i].value # 0
                  THEN 1 ELSE 0]]]

\* sources = ee.Image().toByte().paint(geometry, 1)
paintedSources(px, inside) == paint(toByte(emptyImage(px)), inside, 1)

\* sources = sources.updateMask(sources)
sources(px, inside) == updateMask(paintedSources(px, inside), paintedSources(px, inside))

\* image.select([old], [new])
select(image, new) == [image EXCEPT !.band = new]

\* image.clip(geometry): masked outside the geometry
clip(image, inside) ==
    [image EXCEPT !.px = [i \in DOMAIN @ |->
        [value |-> @[i].value, mask |-> IF inside[i] THEN @[i].mask ELSE 0]]]

\* variant: greater than or equal
gteImage(image, value) ==
    [image EXCEPT !.px = [i \in DOMAIN @ |->
        [value |-> IF @[i].value >= value THEN 1 ELSE 0, mask |-> @[i].mask]]]

\* image.gt(value): 1 where the pixel is greater than the value, otherwise 0
gtImage(image, value) ==
    [image EXCEPT !.px = [i \in DOMAIN @ |->
        [value |-> IF @[i].value > value THEN 1 ELSE 0, mask |-> @[i].mask]]]

\* image.selfMask(): masked where the image is zero
selfMask(image) == updateMask(image, image)

\* image.rename(name)
rename(image, name) == [image EXCEPT !.band = name]

\* kelvin = ee.Image(...).select(['B10'], ['kelvin']).clip(aoi)
kelvin(px, inside) == clip(select(band("B10", px), "kelvin"), inside)

\* hotspots = kelvin.gt(303).selfMask().rename('hotspots')
hotspots(image) == rename(selfMask(gtImage(image, 303)), "hotspots")

\* whether each pixel lies in the geometry of the notebook
Inside(px) == [i \in DOMAIN px |-> px[i].inside]

\* the classes of ESA/GLOBCOVER_L4_200901_200912_V2_3
GlobcoverClasses ==
    { 11, 14, 20, 30, 40, 50, 60, 70, 80, 90, 100, 110, 120, 130, 140, 150, 160,
      170, 180, 190, 200, 210, 220, 230 }

\* a pixel of the land cover image: a valid class or masked, outside the
\* rectangle; or a pixel of the rectangle
CoverPool ==
    { [value |-> c, mask |-> 1, inside |-> FALSE] : c \in GlobcoverClasses }
        \cup { [value |-> 0, mask |-> 0, inside |-> FALSE],
               [value |-> 130, mask |-> 1, inside |-> TRUE] }

\* the brightness temperatures of band B10 around the threshold, in Kelvin
Temperatures == { 302, 303, 304 }

\* a pixel of the thermal band: valid or masked, in the area of interest or not
ThermalPool ==
    { [value |-> v, mask |-> 1, inside |-> b] : v \in Temperatures, b \in BOOLEAN }
        \cup { [value |-> 0, mask |-> 0, inside |-> b] : b \in BOOLEAN }

(***************************************************************************)
(* The mapped functions as the kernel sees them: what a call of the        *)
(* function does in the kernel (collection.map(f) calls f once, on a       *)
(* placeholder image, to build the expression it sends).                   *)
(***************************************************************************)
MappedFunctions ==
    { "addTime", "lambda addTime", "conditional", "calNDVI", "lambda NDVI" }

\* variant: calNDVI keeps a count in a global and prints the image
BodyWithEffects(f) ==
    [parameter |-> "image",
     names |-> { "image", "count" },
     globals |-> IF f = "calNDVI" THEN { "count" } ELSE { },
     prints |-> IF f = "calNDVI" THEN << << "image" >> >> ELSE << >>,
     returns |-> "image.normalizedDifference(['B5', 'B4'])"]

\* the body of a mapped function: its parameter, the names its return
\* expression refers to, the names it declares global and assigns, what it
\* prints, and the expression it returns
Body(f) ==
    CASE f \in { "addTime", "lambda addTime" } ->
            [parameter |-> "image", names |-> { "image" }, globals |-> { },
             prints |-> << >>,
             returns |-> "image.addBands(image.metadata('system:time_start'))"]
      [] f = "conditional" ->
            [parameter |-> "image", names |-> { "image", "ee" }, globals |-> { },
             prints |-> << >>,
             returns |-> "ee.Algorithms.If(ee.Number(image.get('SUN_ELEVATION')).gt(40), image, ee.Image(0))"]
      [] OTHER ->
            [parameter |-> "image", names |-> { "image" }, globals |-> { },
             prints |-> << >>,
             returns |-> "image.normalizedDifference(['B5', 'B4'])"]

\* the function a construction statement maps over a collection ("" = none)
MappedBy(expr) ==
    CASE expr = "map(addTime).first" -> "addTime"
      [] expr = "map(lambda).first" -> "lambda addTime"
      [] expr = "map(calNDVI)" -> "calNDVI"
      [] expr = "map(lambda)" -> "lambda NDVI"
      [] OTHER -> ""

\* what building the expression prints and binds besides its target
PrintedBy(expr) == IF MappedBy(expr) = "" THEN << >> ELSE Body(MappedBy(expr)).prints

BoundBy(expr) == IF MappedBy(expr) = "" THEN { } ELSE Body(MappedBy(expr)).globals

(***************************************************************************)
(* The map widget (folium.Map with geehydro's methods).                    *)
(***************************************************************************)
OpenStreetMap ==
    [name |-> "openstreetmap",
     tiles |-> "https://{s}.tile.openstreetmap.org/{z}/{x}/{y}.png",
     overlay |-> FALSE]

\* the basemaps Map.setOptions() accepts
BasemapOptions == { "ROADMAP", "SATELLITE", "HYBRID", "TERRAIN", "ESRI" }

\* the tile layer of a basemap option
Basemap(option) ==
    IF option = "HYBRID"
    THEN [name |-> "Google Satellite",
          tiles |-> "https://mt1.google.com/vt/lyrs=y&x={x}&y={y}&z={z}",
          overlay |-> TRUE]
    ELSE [name |-> option, tiles |-> option, overlay |-> TRUE]

\* folium.Map(location=[40, -100], zoom_start=4): OpenStreetMap is the
\* default tile layer
newFoliumMap ==
    [layers |-> << OpenStreetMap >>, view |-> "location", controls |-> FALSE]

\* variant: the basemap takes the place of the default tile layer
withBasemapReplacing(m, option) ==
    [m EXCEPT !.layers = << [Basemap(option) EXCEPT !.overlay = FALSE] >> \o Tail(@)]

\* Map.setOptions(option): the basemap is added to the map's layers
withBasemap(m, option) ==
    IF option \in BasemapOptions
    THEN [m EXCEPT !.layers = Append(@, Basemap(option))]
    ELSE m

\* the name of a layer added without a name
LayerName(name) == IF name = NoName THEN "Layer untitled" ELSE name

\* variant: the tile layer is added with overlay=False, as a base layer
withBaseLayer(m, name, url) ==
    [m EXCEPT !.layers =
        Append(@, [name |-> LayerName(name), tiles |-> url, overlay |-> FALSE])]

\* Map.addLayer(ee_object, vis_params, name): a tile layer of the returned
\* tile URL, added as an overlay
withLayer(m, name, url) ==
    [m EXCEPT !.layers =
        Append(@, [name |-> LayerName(name), tiles |-> url, overlay |-> TRUE])]

\* the layer control of the rendered map: base layers and overlays by name
Names(layers) == [i \in DOMAIN layers |-> layers[i].name]

base_layers(m) == Names(SelectSeq(m.layers, LAMBDA l : ~l.overlay))

overlays(m) == Names(SelectSeq(m.layers, LAMBDA l : l.overlay))

\* the tile URL the service returns for its n-th request
TileUrl(n) ==
    "https://earthengine.googleapis.com/v1alpha/projects/earthengine-legacy/maps/"
        \o ToString(n)

(***************************************************************************)
(* Which statements talk to the service, and what comes back.              *)
(***************************************************************************)
\* the client call that carries the request
Via(kind) == IF kind = "addLayer" THEN "getMapId" ELSE "getInfo"

\* variant: the layer's raster is downloaded instead of a tile URL
ReturnedRaster(kind, type) ==
    CASE kind = "addLayer" -> "pixels"
      [] kind = "centerObject" -> "coordinates"
      [] OTHER -> "metadata"

\* what the service returns to the notebook for a request
Returned(kind, type) ==
    CASE kind = "addLayer" -> "tile URL"
      [] kind = "centerObject" -> "coordinates"
      [] kind = "getInfo" /\ type \in { "Array", "PixelGrid" } -> "pixels"
      [] OTHER -> "metadata"

\* the phase of the notebook a statement belongs to
Phase(kind) ==
    CASE kind \in { "import", "pip" } -> "bootstrap"
      [] kind \in { "ee.Initialize", "ee.Authenticate" } -> "authentication"
      [] kind \in { "folium.Map", "setOptions" } -> "map"
      [] kind \in { "setControlVisibility", "display" } -> "display"
      [] OTHER -> "script"

\* the phase history with the phase p entered
Entered(h, p) == IF h # << >> /\ h[Len(h)] = p THEN h ELSE Append(h, p)

(***************************************************************************)
(* The bootstrap cell.                                                     *)
(***************************************************************************)
\* what `import geehydro` does in the kernel's environment
ImportResult(env) ==
    CASE env = "present" -> "ok"
      [] env = "missing" -> "ImportError"
      [] OTHER -> "AttributeError"

\* variant: a bare `except:` around the import
ExceptAnything(exc) == exc # "ok"

\* except ImportError:
ExceptImportError(exc) == exc = "ImportError"

\* what ee.Initialize() can do: it returns only with valid credentials
InitializeResults(cred) ==
    (IF cred THEN { "ok" } ELSE { }) \cup { "EEException", "OSError", "KeyboardInterrupt" }

AuthenticateResults == { "ok", "EEException", "KeyboardInterrupt" }

\* the outcomes that are instances of Exception (KeyboardInterrupt is not)
Exceptions == { "ImportError", "AttributeError", "EEException", "OSError",
                "CalledProcessError" }

\* variant: `except ee.EEException:` around ee.Initialize()
ExceptEEException(exc) == exc = "EEException"

\* except Exception as e:
ExceptException(exc) == exc \in Exceptions

\* a call into a library, as the log keeps it: exc = "ok" when it returned
Call(op, arg, exc) == [op |-> op, arg |-> arg, exc |-> exc, cell |-> cell]

Running == status = "running" /\ inflight = << >>

\* the next statement of the current script cell
HasStmt ==
    /\ Running
    /\ boot = "done"
    /\ cell \in 2..NumCells(nb)
    /\ pc \in 1..Len(Cell(nb, cell))

Stmt == Cell(nb, cell)[pc]

At(kind) == HasStmt /\ Stmt.k = kind

\* try: import geehydro
ImportGeehydro ==
    /\ Running /\ boot = "try import"
    /\ LET exc == ImportResult(geehydro) IN
        /\ log' = Append(log, Call("import geehydro", "", exc))
        /\ IF exc = "ok" THEN boot' = "imports" /\ status' = status
           ELSE IF ExceptImportError(exc) THEN boot' = "pip" /\ status' = status
           ELSE boot' = boot /\ status' = "failed"
    /\ hist' = Entered(hist, Phase("import"))
    /\ UNCHANGED <<nb, cell, pc, geehydro, credentials, initialized, maps, Map,
                   bindings, inflight, requests, printed, displayed, catalog, scenes, pixels, mapped>>

\* print('geehydro package not installed. Installing ...')
\* subprocess.check_call(["python", '-m', 'pip', 'install', 'geehydro'])
PipInstall ==
    /\ Running /\ boot = "pip"
    /\ printed' = Append(printed, << "geehydro package not installed. Installing ..." >>)
    /\ \E rc \in {0, 1} :
        /\ log' = Append(log, Call("pip install", "geehydro",
                                   IF rc = 0 THEN "ok" ELSE "CalledProcessError"))
        /\ IF rc = 0
           THEN /\ geehydro' \in { "present", "missing" }
                /\ boot' = "imports" /\ status' = status
           ELSE /\ geehydro' = geehydro
                /\ boot' = boot /\ status' = "failed"
    /\ hist' = Entered(hist, Phase("pip"))
    /\ UNCHANGED <<nb, cell, pc, credentials, initialized, maps, Map, bindings,
                   inflight, requests, displayed, catalog, scenes, pixels, mapped>>

\* import ee; import folium; import geehydro
ImportLibraries ==
    /\ Running /\ boot = "imports"
    /\ LET exc == ImportResult(geehydro) IN
        /\ log' = Append(log, Call("import geehydro", "", exc))
        /\ IF exc = "ok" THEN boot' = "initialize" /\ status' = status
           ELSE boot' = boot /\ status' = "failed"
    /\ bindings' = bindings \cup { "ee", "folium", "geehydro" }
    /\ hist' = Entered(hist, Phase("import"))
    /\ UNCHANGED <<nb, cell, pc, geehydro, credentials, initialized, maps, Map,
                   inflight, requests, printed, displayed, catalog, scenes, pixels, mapped>>

\* the bootstrap cell has run to its end: the kernel goes to the next cell
BootDone == boot' = "done" /\ cell' = 2 /\ pc' = 1 /\ status' = status

\* try: ee.Initialize()
Initialize ==
    /\ Running /\ boot = "initialize"
    /\ \E exc \in InitializeResults(credentials) :
        /\ log' = Append(log, Call("ee.Initialize", "", exc))
        /\ initialized' = (exc = "ok")
        /\ IF exc = "ok" THEN BootDone
           ELSE IF ExceptException(exc)
           THEN boot' = "authenticate" /\ UNCHANGED <<cell, pc, status>>
           ELSE boot' = boot /\ status' = "failed" /\ UNCHANGED <<cell, pc>>
    /\ hist' = Entered(hist, Phase("ee.Initialize"))
    /\ UNCHANGED <<nb, geehydro, credentials, maps, Map, bindings, inflight,
                   requests, printed, displayed, catalog, scenes, pixels, mapped>>

\* except Exception as e: ee.Authenticate()
Authenticate ==
    /\ Running /\ boot = "authenticate"
    /\ \E exc \in AuthenticateResults :
        /\ log' = Append(log, Call("ee.Authenticate", "", exc))
        /\ IF exc = "ok"
           THEN credentials' = TRUE /\ boot' = "initialize again" /\ status' = status
           ELSE credentials' = credentials /\ boot' = boot /\ status' = "failed"
    /\ hist' = Entered(hist, Phase("ee.Authenticate"))
    /\ UNCHANGED <<nb, cell, pc, geehydro, initialized, maps, Map, bindings,
                   inflight, requests, printed, displayed, catalog, scenes, pixels, mapped>>

\* variant: the second ee.Initialize() wrapped in a try whose except passes
InitializeAgainSwallowed ==
    /\ Running /\ boot = "initialize again"
    /\ \E exc \in InitializeResults(credentials) :
        /\ log' = Append(log, Call("ee.Initialize", "", exc))
        /\ initialized' = (exc = "ok")
        /\ BootDone
    /\ hist' = Entered(hist, Phase("ee.Initialize"))
    /\ UNCHANGED <<nb, geehydro, credentials, maps, Map, bindings, inflight,
                   requests, printed, displayed, catalog, scenes, pixels, mapped>>

\* ee.Initialize() in the except clause: what it raises ends the cell
InitializeAgain ==
    /\ Running /\ boot = "initialize again"
    /\ \E exc \in InitializeResults(credentials) :
        /\ log' = Append(log, Call("ee.Initialize", "", exc))
        /\ initialized' = (exc = "ok")
        /\ IF exc = "ok" THEN BootDone
           ELSE boot' = boot /\ status' = "failed" /\ UNCHANGED <<cell, pc>>
    /\ hist' = Entered(hist, Phase("ee.Initialize"))
    /\ UNCHANGED <<nb, geehydro, credentials, maps, Map, bindings, inflight,
                   requests, printed, displayed, catalog, scenes, pixels, mapped>>

(***************************************************************************)
(* The script cells.                                                       *)
(***************************************************************************)
\* variant: an expression is evaluated by the service as soon as it is built
ConstructExpressionEager ==
    /\ At("construct")
    /\ bindings' = bindings \cup { Stmt.v }
    /\ inflight' = << [k |-> "getInfo", a |-> Stmt.a, t |-> "Image", o |-> Stmt.o,
                       cell |-> cell, pc |-> pc, map |-> Map] >>
    /\ hist' = Entered(hist, Phase("construct"))
    /\ UNCHANGED <<nb, cell, pc, boot, status, geehydro, credentials, initialized, log,
                   maps, Map, requests, printed, displayed, catalog, scenes, pixels, mapped>>

\* a statement that only builds or rebinds an expression: nothing is sent
ConstructExpression ==
    /\ At("construct")
    /\ bindings' = bindings \cup { Stmt.v } \cup BoundBy(Stmt.a)
    /\ printed' = printed \o PrintedBy(Stmt.a)
    /\ pc' = pc + 1
    /\ hist' = Entered(hist, Phase("construct"))
    /\ UNCHANGED <<nb, cell, boot, status, geehydro, credentials, initialized, log,
                   maps, Map, inflight, requests, displayed, catalog, scenes, pixels,
                   mapped>>

\* def addTime(image): ... / def conditional(image): ... / def calNDVI(image): ...
DefineFunction ==
    /\ At("def")
    /\ bindings' = bindings \cup { Stmt.v }
    /\ pc' = pc + 1
    /\ hist' = Entered(hist, Phase("def"))
    /\ UNCHANGED <<nb, cell, boot, status, geehydro, credentials, initialized, log,
                   maps, Map, inflight, requests, printed, displayed, catalog, scenes, pixels, mapped>>

\* vizParams = {...}
AssignVizParams ==
    /\ At("assign")
    /\ bindings' = bindings \cup { Stmt.v }
    /\ pc' = pc + 1
    /\ hist' = Entered(hist, Phase("assign"))
    /\ UNCHANGED <<nb, cell, boot, status, geehydro, credentials, initialized, log,
                   maps, Map, inflight, requests, printed, displayed, catalog, scenes, pixels, mapped>>

\* Map = folium.Map(location=[40, -100], zoom_start=4)
FoliumMap ==
    /\ At("folium.Map")
    /\ maps' = Append(maps, newFoliumMap)
    /\ Map' = Len(maps) + 1
    /\ bindings' = bindings \cup { "Map" }
    /\ log' = Append(log, Call("folium.Map", "", "ok"))
    /\ pc' = pc + 1
    /\ hist' = Entered(hist, Phase("folium.Map"))
    /\ UNCHANGED <<nb, cell, boot, status, geehydro, credentials, initialized,
                   inflight, requests, printed, displayed, catalog, scenes, pixels, mapped>>

\* Map.setOptions('HYBRID')
SetOptions ==
    /\ At("setOptions")
    /\ maps' = [maps EXCEPT ![Map] = withBasemap(@, Stmt.a)]
    /\ log' = Append(log, Call("Map.setOptions", Stmt.a, "ok"))
    /\ pc' = pc + 1
    /\ hist' = Entered(hist, Phase("setOptions"))
    /\ UNCHANGED <<nb, cell, boot, status, geehydro, credentials, initialized, Map,
                   bindings, inflight, requests, printed, displayed, catalog, scenes, pixels, mapped>>

\* Map.setCenter(lon, lat, zoom): client side only
SetCenter ==
    /\ At("setCenter")
    /\ maps' = [maps EXCEPT ![Map].view = "center"]
    /\ log' = Append(log, Call("Map.setCenter", "", "ok"))
    /\ pc' = pc + 1
    /\ hist' = Entered(hist, Phase("setCenter"))
    /\ UNCHANGED <<nb, cell, boot, status, geehydro, credentials, initialized, Map,
                   bindings, inflight, requests, printed, displayed, catalog, scenes, pixels, mapped>>

\* the request of the statement the kernel is at
Request ==
    [k |-> Stmt.k, a |-> Stmt.a, t |-> Stmt.t, o |-> Stmt.o,
     cell |-> cell, pc |-> pc, map |-> Map]

\* the call of a submitting statement: without an initialized client library
\* it raises, otherwise the kernel blocks on the request
Submit ==
    /\ IF initialized
       THEN inflight' = << Request >> /\ log' = log /\ status' = status
       ELSE /\ inflight' = inflight
            /\ log' = Append(log, Call(Stmt.k, Stmt.a, "EEException"))
            /\ status' = "failed"
    /\ hist' = Entered(hist, Phase(Stmt.k))
    /\ UNCHANGED <<nb, cell, pc, boot, geehydro, credentials, initialized, maps, Map,
                   bindings, requests, printed, displayed, catalog, scenes, pixels, mapped>>

\* Map.addLayer(ee_object, vis_params, name)
AddLayer == At("addLayer") /\ Submit

\* variant: centerObject that fits the view without asking the service
CenterObjectLocal ==
    /\ At("centerObject")
    /\ maps' = [maps EXCEPT ![Map].view = "fit"]
    /\ log' = Append(log, Call("centerObject", Stmt.a, "ok"))
    /\ pc' = pc + 1
    /\ hist' = Entered(hist, Phase("centerObject"))
    /\ UNCHANGED <<nb, cell, boot, status, geehydro, credentials, initialized, Map,
                   bindings, inflight, requests, printed, displayed, catalog, scenes, pixels, mapped>>

\* Map.centerObject(ee_object, zoom)
CenterObject == At("centerObject") /\ Submit

\* print(..., x.getInfo())
GetInfo == At("getInfo") /\ Submit

\* the map the answer of request r leaves
Answered(m, r, n) ==
    CASE r.k = "addLayer" -> withLayer(m, r.a, TileUrl(n))
      [] r.k = "centerObject" -> [m EXCEPT !.view = "fit"]
      [] OTHER -> m

\* the service answers the request; the blocked statement completes
ServiceResponds ==
    /\ status = "running" /\ inflight # << >>
    /\ LET r == inflight[1]
           n == Len(requests) + 1 IN
        /\ Evaluable(r.a, catalog)
        /\ ElementEvaluable(r.o, scenes)
        /\ requests' = Append(requests,
               [cell |-> r.cell, pc |-> r.pc, k |-> r.k, a |-> r.a, map |-> r.map,
                via |-> Via(r.k), returned |-> Returned(r.k, r.t), o |-> r.o,
                collection |-> EvaluatedCollection(r, catalog, scenes),
                value |-> EvaluatedValue(r, catalog, scenes)])
        /\ maps' = IF r.k = "getInfo" THEN maps
                   ELSE [maps EXCEPT ![r.map] = Answered(@, r, n)]
        /\ printed' = IF r.k = "getInfo"
                      THEN Append(printed, Evaluate(r.a, r.t, catalog))
                      ELSE printed
        /\ mapped' = IF MappedFunction(r.a) # ""
                     THEN mapCollection(MappedFunction(r.a), filterPathRow(catalog))
                     ELSE mapped
        /\ log' = Append(log, Call(r.k, r.a, "ok"))
    /\ inflight' = << >>
    /\ pc' = pc + 1
    /\ UNCHANGED <<nb, cell, boot, status, geehydro, credentials, initialized, Map,
                   bindings, displayed, catalog, scenes, pixels, hist>>

\* variant: the failed request is caught and the statement is run again
ServiceRaisesRetried ==
    /\ status = "running" /\ inflight # << >>
    /\ log' = Append(log, Call(inflight[1].k, inflight[1].a, "EEException"))
    /\ inflight' = << >>
    /\ UNCHANGED <<nb, cell, pc, boot, status, geehydro, credentials, initialized,
                   maps, Map, bindings, requests, printed, displayed, catalog, scenes, pixels,
                   mapped, hist>>

\* the request fails (EEException): the statement raises and the run stops
ServiceRaises ==
    /\ status = "running" /\ inflight # << >>
    /\ log' = Append(log, Call(inflight[1].k, inflight[1].a, "EEException"))
    /\ inflight' = << >>
    /\ status' = "failed"
    /\ UNCHANGED <<nb, cell, pc, boot, geehydro, credentials, initialized, maps, Map,
                   bindings, requests, printed, displayed, catalog, scenes, pixels, mapped, hist>>

\* Map.setControlVisibility(layerControl=True, fullscreenControl=True, latLngPopup=True)
SetControlVisibility ==
    /\ At("setControlVisibility")
    /\ maps' = [maps EXCEPT ![Map].controls = TRUE]
    /\ log' = Append(log, Call("Map.setControlVisibility", "", "ok"))
    /\ pc' = pc + 1
    /\ hist' = Entered(hist, Phase("setControlVisibility"))
    /\ UNCHANGED <<nb, cell, boot, status, geehydro, credentials, initialized, Map,
                   bindings, inflight, requests, printed, displayed, catalog, scenes, pixels, mapped>>

\* the rendered output of a map: its layer control
Render(m, id) ==
    [map |-> id, base_layers |-> base_layers(m), overlays |-> overlays(m)]

\* Map as the last expression of a cell: the map is rendered in the output
Display ==
    /\ At("display")
    /\ displayed' = Append(displayed, Render(maps[Map], Map))
    /\ pc' = pc + 1
    /\ hist' = Entered(hist, Phase("display"))
    /\ UNCHANGED <<nb, cell, boot, status, geehydro, credentials, initialized, log,
                   maps, Map, bindings, inflight, requests, printed, catalog, scenes, pixels, mapped>>

\* the cell has run to its end: the kernel goes to the next one, or is done
RunNextCell ==
    /\ Running /\ boot = "done"
    /\ cell \in 2..NumCells(nb)
    /\ pc = Len(Cell(nb, cell)) + 1
    /\ IF cell = NumCells(nb)
       THEN status' = "done" /\ UNCHANGED <<cell, pc>>
       ELSE status' = status /\ cell' = cell + 1 /\ pc' = 1
    /\ UNCHANGED <<nb, boot, geehydro, credentials, initialized, log, maps, Map,
                   bindings, inflight, requests, printed, displayed, catalog, scenes, pixels,
                   mapped, hist>>

(***************************************************************************)
(* The specification: Run All on one of the notebooks, in a fresh kernel.  *)
(***************************************************************************)
MappingNotebook == "04_mapping_over_image_collection"

\* the kernel's state before the first cell runs
FreshKernel ==
    /\ cell = 1 /\ pc = 1 /\ boot = "try import" /\ status = "running"
    /\ initialized = FALSE
    /\ log = << >>
    /\ maps = << >> /\ Map = 0
    /\ bindings = { "subprocess" }
    /\ inflight = << >> /\ requests = << >>
    /\ printed = << >> /\ displayed = << >>
    /\ mapped = << >>
    /\ hist = << >>

\* a content of LANDSAT/LC8_L1T_TOA with which the NDVI cells run to their end
DefaultScenes ==
    Dataset(<< [CLOUD_COVER |-> 20, intersects |-> TRUE],
               [CLOUD_COVER |-> 10, intersects |-> TRUE],
               [CLOUD_COVER |-> 10, intersects |-> TRUE] >>)

\* a content of LANDSAT/LC08/C01/T1_TOA with an image of path 44, row 34
DefaultCatalog ==
    << [bands |-> Raster(LandsatBands), path |-> WRS_PATH, row |-> WRS_ROW,
        time_start |-> 1] >>

Init ==
    /\ nb \in Notebooks
    /\ cell = 1 /\ pc = 1 /\ boot = "try import" /\ status = "running"
    /\ geehydro \in { "present", "missing", "broken" }
    /\ credentials \in BOOLEAN
    /\ initialized = FALSE
    /\ log = << >>
    /\ maps = << >> /\ Map = 0
    /\ bindings = { "subprocess" }
    /\ inflight = << >> /\ requests = << >>
    /\ printed = << >> /\ displayed = << >>
    /\ catalog \in IF nb = MappingNotebook
                   THEN SeqsUpTo(ImagePool, MaxImages) ELSE { << >> }
    /\ scenes = DefaultScenes
    /\ pixels = << >>
    /\ mapped = << >>
    /\ hist = << >>

Next ==
    \/ ImportGeehydro
    \/ PipInstall
    \/ ImportLibraries
    \/ Initialize
    \/ Authenticate
    \/ InitializeAgain
    \/ ConstructExpression
    \/ DefineFunction
    \/ AssignVizParams
    \/ FoliumMap
    \/ SetOptions
    \/ SetCenter
    \/ AddLayer
    \/ CenterObject
    \/ GetInfo
    \/ ServiceResponds
    \/ ServiceRaises
    \/ SetControlVisibility
    \/ Display
    \/ RunNextCell

Spec == Init /\ [][Next]_vars

(***************************************************************************)
(* Run All on the mapping notebook over the contents of the two datasets   *)
(* it reads, in a kernel without geehydro and without stored credentials   *)
(* (the bootstrap cell then goes through its install and authentication   *)
(* branches).                                                              *)
(***************************************************************************)
DatasetInit ==
    /\ nb = MappingNotebook
    /\ FreshKernel
    /\ geehydro = "missing"
    /\ credentials = FALSE
    /\ pixels = << >>
    /\ \/ /\ catalog \in SeqsUpTo({ im \in ImagePool : im.row = WRS_ROW }, MaxImages)
          /\ scenes = DefaultScenes
       \/ /\ catalog = DefaultCatalog
          /\ scenes \in { Dataset(images) : images \in SeqsUpTo(ScenePool, MaxScenes) }

\* the steps of the mapping notebook (it has no Map.setCenter statement)
DatasetNext ==
    \/ ImportGeehydro
    \/ PipInstall
    \/ ImportLibraries
    \/ Initialize
    \/ Authenticate
    \/ InitializeAgain
    \/ ConstructExpression
    \/ DefineFunction
    \/ AssignVizParams
    \/ FoliumMap
    \/ SetOptions
    \/ AddLayer
    \/ CenterObject
    \/ GetInfo
    \/ ServiceResponds
    \/ ServiceRaises
    \/ SetControlVisibility
    \/ Display
    \/ RunNextCell

DatasetSpec == DatasetInit /\ [][DatasetNext]_vars

(***************************************************************************)
(* The service evaluating an expression of a notebook on its own, over     *)
(* every content of the data the expression reads.                         *)
(***************************************************************************)
\* collection.map(conditional), the collection being LANDSAT/LC8_L1T_TOA
\* filtered to path 44, row 34
EvaluateMapConditional ==
    /\ nb = MappingNotebook
    /\ mapped = << >>
    /\ mapped' = << [expression |-> "collection.map(conditional)",
                     collection |-> filterPathRow(scenes),
                     value |-> mapConditional(filterPathRow(scenes))] >>
    /\ UNCHANGED <<nb, cell, pc, boot, status, geehydro, credentials, initialized, log,
                   maps, Map, bindings, inflight, requests, printed, displayed,
                   catalog, scenes, pixels, hist>>

\* cost, over the pixels of the land cover image
EvaluateCost ==
    /\ nb = "13_cumulative_cost_mapping"
    /\ mapped = << >>
    /\ mapped' = << [expression |-> "cost",
                     cover |-> band("landcover", pixels),
                     value |-> cost(band("landcover", pixels))] >>
    /\ UNCHANGED <<nb, cell, pc, boot, status, geehydro, credentials, initialized, log,
                   maps, Map, bindings, inflight, requests, printed, displayed,
                   catalog, scenes, pixels, hist>>

\* sources, before and after sources.updateMask(sources)
EvaluateSources ==
    /\ nb = "13_cumulative_cost_mapping"
    /\ mapped = << >>
    /\ mapped' = << [expression |-> "sources",
                     painted |-> paintedSources(pixels, Inside(pixels)),
                     value |-> sources(pixels, Inside(pixels))] >>
    /\ UNCHANGED <<nb, cell, pc, boot, status, geehydro, credentials, initialized, log,
                   maps, Map, bindings, inflight, requests, printed, displayed,
                   catalog, scenes, pixels, hist>>

\* hotspots, over the pixels of band B10 of the Landsat image
EvaluateHotspots ==
    /\ nb = "12_object_based_methods"
    /\ mapped = << >>
    /\ mapped' = << [expression |-> "hotspots",
                     kelvin |-> kelvin(pixels, Inside(pixels)),
                     value |-> hotspots(kelvin(pixels, Inside(pixels)))] >>
    /\ UNCHANGED <<nb, cell, pc, boot, status, geehydro, credentials, initialized, log,
                   maps, Map, bindings, inflight, requests, printed, displayed,
                   catalog, scenes, pixels, hist>>

ServiceInit ==
    /\ FreshKernel
    /\ geehydro = "present"
    /\ credentials = TRUE
    /\ catalog = << >>
    /\ \/ /\ nb = MappingNotebook
          /\ scenes \in SeqsUpTo(SunPool, MaxImages)
          /\ pixels = << >>
       \/ /\ nb = "13_cumulative_cost_mapping"
          /\ scenes = << >>
          /\ pixels \in SeqsUpTo(CoverPool, MaxPixels)
       \/ /\ nb = "12_object_based_methods"
          /\ scenes = << >>
          /\ pixels \in SeqsUpTo(ThermalPool, MaxPixels)

ServiceNext ==
    \/ EvaluateMapConditional
    \/ EvaluateCost
    \/ EvaluateSources
    \/ EvaluateHotspots

ServiceSpec == ServiceInit /\ [][ServiceNext]_vars

(***************************************************************************)
(* Vocabulary of the properties.                                           *)
(***************************************************************************)
PhaseOrder == << "bootstrap", "authentication", "map", "script", "display" >>

Rank(p) == CHOOSE i \in DOMAIN PhaseOrder : PhaseOrder[i] = p

SubmittingCalls == { "addLayer", "centerObject", "getInfo" }

Indices(op) == { i \in DOMAIN log : log[i].op = op }

Calls(op) == Cardinality(Indices(op))

\* the kernel is over with the bootstrap cell: it ran to its end or it raised
BootstrapOver == boot = "done" \/ status = "failed"

\* every submitting call was made after an ee.Initialize() that returned
NoSubmissionBeforeInitialize ==
    /\ inflight # << >> =>
        \E i \in Indices("ee.Initialize") : log[i].exc = "ok"
    /\ \A j \in DOMAIN log : log[j].op \in SubmittingCalls =>
        \E i \in Indices("ee.Initialize") : i < j /\ log[i].exc = "ok"

\* C1 as stated: the five phases happen once each, in the order bootstrap,
\* authentication/initialization, map construction, expression construction
\* with requests, display; and nothing is submitted before ee.Initialize()
\* has returned successfully.
C1_PhasesOnceInOrder ==
    /\ \A i \in 1..(Len(hist) - 1) : Rank(hist[i]) < Rank(hist[i + 1])
    /\ NoSubmissionBeforeInitialize

\* C1 (amended): the phases are first entered in the order bootstrap,
\* authentication/initialization, map construction, expression construction
\* with requests, display (a phase can be entered again later: the mapping
\* notebook constructs a map after expression construction and after a
\* display); a run that finishes ends with a display; and no Map.addLayer,
\* Map.centerObject or getInfo() call happens before ee.Initialize() has
\* returned successfully.
C1_PhasesFirstEnteredInOrder ==
    /\ \A i \in DOMAIN hist :
        \/ i = 1 /\ hist[i] = PhaseOrder[1]
        \/ i > 1 /\ \E j \in 1..(i - 1) : Rank(hist[i]) <= Rank(hist[j]) + 1
    /\ status = "done" => hist[Len(hist)] = "display"
    /\ NoSubmissionBeforeInitialize

\* a finished run of the mapping notebook, whose last cell constructs a map
\* and adds layers after the display of the cell before
C1_Witness ==
    /\ status = "done"
    /\ nb = MappingNotebook
    /\ Len(hist) > Len(PhaseOrder)
    /\ Len(requests) > 0

\* C2: the pip install subprocess is started exactly when the first
\* `import geehydro` raises ImportError; when the import succeeds (or raises
\* something else) no subprocess is started.
C2_PipInstallIffImportError ==
    /\ Calls("pip install") <= 1
    /\ Calls("pip install") = 1 => log[1].exc = "ImportError"
    /\ (log # << >> /\ log[1].exc = "ImportError" /\ boot # "pip") =>
        Calls("pip install") = 1
    /\ (log # << >> /\ log[1].exc # "ImportError") => Calls("pip install") = 0

\* geehydro was missing, the install ran and the bootstrap cell completed
C2_Witness ==
    /\ boot = "done"
    /\ Calls("pip install") = 1
    /\ log[1].op = "import geehydro" /\ log[1].exc = "ImportError"

FirstIndex(op) == CHOOSE i \in Indices(op) : \A j \in Indices(op) : i <= j

LastIndex(op) == CHOOSE i \in Indices(op) : \A j \in Indices(op) : j <= i

\* what C3 says of the calls of ee.Initialize() and ee.Authenticate(), but
\* for what follows a call of ee.Authenticate()
C3_Calls ==
    /\ Calls("ee.Initialize") <= 2
    /\ Calls("ee.Authenticate") <= 1
    /\ Calls("ee.Authenticate") = 1 =>
        log[FirstIndex("ee.Initialize")].exc \in Exceptions
    /\ (Calls("ee.Initialize") >= 1 /\ boot # "authenticate"
            /\ log[FirstIndex("ee.Initialize")].exc \in Exceptions) =>
        Calls("ee.Authenticate") = 1
    /\ (Calls("ee.Initialize") >= 1
            /\ log[FirstIndex("ee.Initialize")].exc \notin Exceptions) =>
        Calls("ee.Authenticate") = 0
    /\ boot = "done" => log[LastIndex("ee.Initialize")].exc = "ok"

\* C3 as stated: ee.Authenticate() is called if and only if the first
\* ee.Initialize() raises an Exception; after Authenticate, ee.Initialize()
\* is called exactly once more; at most two Initialize and one Authenticate
\* per execution; the cell completes only when its last Initialize succeeded.
C3_AuthenticateThenInitialize ==
    /\ C3_Calls
    /\ (Calls("ee.Authenticate") = 1 /\ BootstrapOver) => Calls("ee.Initialize") = 2

\* C3 (amended): ee.Authenticate() is called if and only if the first
\* ee.Initialize() raises an Exception (of any Exception type); after an
\* Authenticate that returns, ee.Initialize() is called exactly once more,
\* and when Authenticate itself raises the cell ends with Initialize called
\* once; Initialize is called at most twice and Authenticate at most once;
\* the cell completes normally only when its last Initialize call succeeded.
C3_AuthenticateReturnedThenInitialize ==
    /\ C3_Calls
    /\ (Calls("ee.Authenticate") = 1 /\ log[FirstIndex("ee.Authenticate")].exc = "ok"
            /\ boot # "initialize again") =>
        Calls("ee.Initialize") = 2
    /\ (Calls("ee.Authenticate") = 1 /\ log[FirstIndex("ee.Authenticate")].exc # "ok") =>
        Calls("ee.Initialize") = 1 /\ status = "failed" /\ boot # "done"

\* the first ee.Initialize() raised, ee.Authenticate() returned, and the
\* second ee.Initialize() completed the cell
C3_Witness ==
    /\ boot = "done"
    /\ Calls("ee.Authenticate") = 1
    /\ Calls("ee.Initialize") = 2
    /\ log[FirstIndex("ee.Initialize")].exc = "OSError"

SameOperation(x, y) == x.op = y.op /\ x.arg = y.arg

Failed(i) == log[i].exc # "ok"

\* C4 as stated: no operation that has failed is attempted again.
C4_NoFailedOperationAttemptedAgain ==
    \A i, j \in DOMAIN log :
        (i < j /\ Failed(i)) => ~SameOperation(log[i], log[j])

\* what makes the bootstrap cell attempt a failed operation again
Remedy(op) == IF op = "import geehydro" THEN "pip install" ELSE "ee.Authenticate"

\* C4 (amended): no notebook implements a retry loop.  An operation that has
\* failed is attempted again in two places only, both in the bootstrap cell,
\* once each and only after its remedy succeeded: import geehydro after a
\* successful pip install, ee.Initialize() after a successful
\* ee.Authenticate().  Any other failed operation (pip install,
\* ee.Authenticate(), Map.addLayer, Map.centerObject, getInfo()) ends the run
\* and is not attempted again.
C4_OnlyBootstrapReattempts ==
    /\ \A i, j \in DOMAIN log :
        (i < j /\ Failed(i) /\ SameOperation(log[i], log[j])) =>
            /\ log[i].op \in { "import geehydro", "ee.Initialize" }
            /\ log[i].cell = 1 /\ log[j].cell = 1
            /\ \E k \in DOMAIN log :
                i < k /\ k < j /\ log[k].op = Remedy(log[i].op) /\ ~Failed(k)
            /\ Cardinality({ m \in DOMAIN log : SameOperation(log[m], log[i]) }) = 2
    /\ \A i \in DOMAIN log :
        (Failed(i) /\ log[i].op \notin { "import geehydro", "ee.Initialize" }) =>
            i = Len(log) /\ status = "failed"

\* ee.Initialize() failed and was attempted again, and later a request of a
\* script cell failed and ended the run
C4_Witness ==
    /\ \E i, j \in Indices("ee.Initialize") : i < j /\ Failed(i)
    /\ \E k \in DOMAIN log : log[k].op \in SubmittingCalls /\ Failed(k)
    /\ status = "failed"

RequestsIn(c) == Cardinality({ i \in DOMAIN requests : requests[i].cell = c })

\* how far the kernel is in cell c: the statements before this one have run
Progress(c) ==
    IF boot # "done" \/ c > cell THEN 1
    ELSE IF c = cell THEN pc
    ELSE Len(Cell(nb, c)) + 1

SubmittingStatementsRun(c) ==
    Cardinality({ i \in 1..(Progress(c) - 1) : Cell(nb, c)[i].k \in SubmittingCalls })

\* C5 as stated: a single network call per code cell.
C5_SingleCallPerCell == \A c \in 2..NumCells(nb) : RequestsIn(c) <= 1

\* C5 (amended): each Map.addLayer, Map.centerObject and getInfo() statement
\* performs one blocking network call (one submission of an expression and
\* one retrieval of a tile URL or scalar/metadata result; the kernel stays at
\* the statement until the answer).  A code cell performs as many calls as
\* it runs such statements: none, one or several, at most seven (the NDVI
\* cells: one centerObject and two addLayer per iteration of the loop).
C5_OneBlockingCallPerStatement ==
    /\ Len(inflight) <= 1
    /\ inflight # << >> =>
        /\ inflight[1].cell = cell /\ inflight[1].pc = pc
        /\ Stmt.k \in SubmittingCalls
    /\ \A c \in 2..NumCells(nb) :
        /\ RequestsIn(c) = SubmittingStatementsRun(c)
        /\ RequestsIn(c) <= 1 + 2 * (RangeStop - RangeStart)
    /\ \A i, j \in DOMAIN requests :
        (requests[i].cell = requests[j].cell /\ requests[i].pc = requests[j].pc) => i = j

\* a finished run with a cell of seven calls and a cell of none
C5_Witness ==
    /\ status = "done"
    /\ \E c \in 2..NumCells(nb) : RequestsIn(c) = 1 + 2 * (RangeStop - RangeStart)
    /\ \E c \in 2..NumCells(nb) : RequestsIn(c) = 0

\* C6: the notebook never receives raw pixel data: every value the service
\* returns is a tile URL obtained through Map.addLayer (getMapId) or a
\* scalar/metadata result obtained through getInfo() (the footprint
\* coordinates Map.centerObject asks for are such a result).
C6_NoRawPixelData ==
    \A i \in DOMAIN requests :
        /\ requests[i].returned # "pixels"
        /\ requests[i].k = "addLayer" =>
            requests[i].returned = "tile URL" /\ requests[i].via = "getMapId"
        /\ requests[i].k # "addLayer" =>
            /\ requests[i].returned \in { "metadata", "coordinates" }
            /\ requests[i].via = "getInfo"

\* a finished run of the image-metadata notebook: a tile URL, the footprint
\* coordinates and eight getInfo() results were returned
C6_Witness ==
    /\ status = "done"
    /\ nb = "03_image_metadata"
    /\ { requests[i].returned : i \in DOMAIN requests }
        = { "tile URL", "coordinates", "metadata" }
    /\ Len(printed) >= 8

\* C7: constructing or rebinding an expression sends no request to the
\* service and leaves the maps unchanged; only Map.addLayer, Map.centerObject
\* and getInfo() submit an expression.
C7_ConstructionSubmitsNothing ==
    [][ /\ (HasStmt /\ Stmt.k = "construct") =>
            (requests' = requests /\ inflight' = inflight /\ maps' = maps /\ log' = log)
        /\ (inflight' # inflight /\ inflight' # << >>) =>
            (HasStmt /\ Stmt.k \in SubmittingCalls)
        /\ requests' # requests =>
            /\ inflight # << >> /\ inflight[1].k \in SubmittingCalls
            /\ Len(requests') = Len(requests) + 1 ]_vars

\* the statement that just ran in the current cell is of the given kind
JustRan(kind) ==
    /\ boot = "done" /\ inflight = << >>
    /\ cell \in 2..NumCells(nb)
    /\ pc \in 2..(Len(Cell(nb, cell)) + 1)
    /\ Cell(nb, cell)[pc - 1].k = kind

\* an expression was just built on a map that has layers, after requests
\* were answered, and nothing is in flight
C7_Witness ==
    /\ JustRan("construct")
    /\ Len(requests) >= 2
    /\ Len(maps[Map].layers) >= 3

HybridTiles == "https://mt1.google.com/vt/lyrs=y&x={x}&y={y}&z={z}"

\* C8: after Map = folium.Map(...) and Map.setOptions('HYBRID') the map keeps
\* OpenStreetMap as its default (and only) base layer and has the HYBRID
\* basemap as one additional layer; every setOptions call passes one of
\* ROADMAP, SATELLITE, HYBRID, TERRAIN, ESRI.
C8_SetOptionsAddsBasemap ==
    /\ \A i \in Indices("Map.setOptions") :
        log[i].arg \in { "ROADMAP", "SATELLITE", "HYBRID", "TERRAIN", "ESRI" }
    /\ JustRan("setOptions") =>
        /\ Len(maps[Map].layers) = 2
        /\ maps[Map].layers[2].name = "Google Satellite"
        /\ maps[Map].layers[2].tiles = HybridTiles
    /\ \A i \in DOMAIN maps :
        /\ maps[i].layers[1].name = "openstreetmap"
        /\ { j \in DOMAIN maps[i].layers : ~maps[i].layers[j].overlay } = { 1 }
        /\ Cardinality({ j \in DOMAIN maps[i].layers : maps[i].layers[j].tiles = HybridTiles })
            = IF i <= Calls("Map.setOptions") THEN 1 ELSE 0

\* setOptions('HYBRID') just ran on the map the NDVI cell constructed
C8_Witness ==
    /\ JustRan("setOptions")
    /\ Len(maps) = 2
    /\ Map = 2

\* C9: every layer added with Map.addLayer is an overlay of the map, made of
\* the tile URL the service returned, under the name passed to addLayer
\* ('Layer untitled' when none is passed); the base layer stays OpenStreetMap
\* and the rendered map lists the layer among its overlays.
C9_LayersAreOverlays ==
    /\ \A i \in DOMAIN requests : requests[i].k = "addLayer" =>
        /\ \E j \in DOMAIN maps[requests[i].map].layers :
            LET l == maps[requests[i].map].layers[j] IN
                /\ l.name = IF requests[i].a = NoName THEN "Layer untitled"
                            ELSE requests[i].a
                /\ l.overlay
                /\ l.tiles = TileUrl(i)
        /\ \A d \in DOMAIN displayed : displayed[d].map = requests[i].map =>
            \E j \in DOMAIN displayed[d].overlays :
                displayed[d].overlays[j] = IF requests[i].a = NoName
                                           THEN "Layer untitled" ELSE requests[i].a
    /\ \A i \in DOMAIN maps :
        { j \in DOMAIN maps[i].layers : ~maps[i].layers[j].overlay } = { 1 }
    /\ \A d \in DOMAIN displayed : displayed[d].base_layers = << "openstreetmap" >>

\* the NDVI cell has displayed its map with the six layers of the loop
C9_Witness ==
    \E d \in DOMAIN displayed :
        /\ displayed[d].overlays =
            << "Google Satellite", "Landsat image 1", "NDVI image 1", "Landsat image 2",
               "NDVI image 2", "Landsat image 3", "NDVI image 3" >>
        /\ displayed[d].base_layers = << "openstreetmap" >>

\* C10: mapping addTime over the collection adds a timestamp band to every
\* image: the bands of each mapped image are the image's bands followed by
\* one band named 'system:time_start' (holding the image's time stamp); for
\* the first image getInfo() returns B1..B11, BQA, 'system:time_start'.
C10_AddTimeAppendsTimestampBand ==
    (requests # << >>
        /\ requests[Len(requests)].a = "map(addTime).first().bandNames()") =>
    LET coll == SelectSeq(catalog, LAMBDA im : im.path = 44 /\ im.row = 34) IN
        /\ Len(mapped) = Len(coll)
        /\ \A i \in DOMAIN coll :
            /\ Len(mapped[i].bands) = Len(coll[i].bands) + 1
            /\ SubSeq(mapped[i].bands, 1, Len(coll[i].bands)) = coll[i].bands
            /\ mapped[i].bands[Len(mapped[i].bands)] =
                [name |-> "system:time_start", value |-> ToString(coll[i].time_start)]
        /\ printed[Len(printed)] =
            << "B1", "B2", "B3", "B4", "B5", "B6", "B7", "B8", "B9", "B10", "B11",
               "BQA", "system:time_start" >>

\* addTime was mapped over a collection of two images with different time
\* stamps and the band names of the first were printed
C10_Witness ==
    /\ requests # << >>
    /\ requests[Len(requests)].a = "map(addTime).first().bandNames()"
    /\ Len(mapped) = 2
    /\ mapped[1].bands[13].value # mapped[2].bands[13].value

\* the code cell of the mapping notebook that maps f into ndvi_images
NDVICell(f) ==
    CHOOSE c \in 2..NumCells(MappingNotebook) :
        \E i \in DOMAIN Cell(MappingNotebook, c) :
            Cell(MappingNotebook, c)[i] = construct("ndvi_images", "map(" \o f \o ")")

\* the layers the cell c has added: name and source image, in order
LayersAdded(c) ==
    LET added == SelectSeq(requests, LAMBDA r : r.cell = c /\ r.k = "addLayer")
    IN  [i \in DOMAIN added |-> [name |-> added[i].a, source |-> added[i].value]]

IsPrefix(s, t) == Len(s) <= Len(t) /\ s = SubSeq(t, 1, Len(s))

\* the answered requests of the given getInfo() expression
Answers(expr) == { i \in DOMAIN requests : requests[i].a = expr }

\* C11: mapping the lambda gives the same result as mapping the named
\* function: collection.map(lambda ...) and collection.map(addTime) yield
\* the same images, and the same printed band names for the first image; the
\* NDVI cell using the lambda adds the same sequence of layers (same names,
\* same order, same source images) as the NDVI cell using calNDVI.
C11_LambdaSameAsNamedFunction ==
    /\ \A i \in Answers("map(addTime).first().bandNames()") :
       \A j \in Answers("map(lambda).first().bandNames()") :
            /\ requests[i].value = requests[j].value
            /\ requests[i].collection = requests[j].collection
            /\ bandNames(requests[i].value[1]) = bandNames(requests[j].value[1])
    /\ (requests # << >>
            /\ requests[Len(requests)].a = "map(lambda).first().bandNames()") =>
        /\ Len(printed) >= 2
        /\ printed[Len(printed)] = printed[Len(printed) - 1]
        /\ printed[Len(printed)] = bandNames(requests[Len(requests)].value[1])
    /\ nb = MappingNotebook =>
        /\ IsPrefix(LayersAdded(NDVICell("lambda")), LayersAdded(NDVICell("calNDVI")))
        /\ status = "done" =>
            /\ LayersAdded(NDVICell("lambda")) = LayersAdded(NDVICell("calNDVI"))
            /\ Names(maps[Len(maps)].layers) = Names(maps[Len(maps) - 1].layers)

\* both NDVI cells ran to their end over a dataset of four images whose
\* order by cloud cover is not the order of the dataset, after the band names
\* of the two mapped collections were printed
C11_Witness ==
    /\ status = "done"
    /\ nb = MappingNotebook
    /\ Len(scenes) = 4
    /\ scenes[1].CLOUD_COVER > scenes[4].CLOUD_COVER
    /\ Len(LayersAdded(NDVICell("lambda"))) = 2 * (RangeStop - RangeStart)
    /\ Answers("map(addTime).first().bandNames()") # { }
    /\ Answers("map(lambda).first().bandNames()") # { }

\* the value of the expression the service evaluated
Evaluated(expression) == mapped # << >> /\ mapped[1].expression = expression

IsConstantImage(image) == Len(image.bands) = 1 /\ image.bands[1].name = "constant"

AtPoint == { i \in DOMAIN scenes : scenes[i].intersects }

\* C14: the NDVI cells select the three images with the least cloud cover at
\* the point: the collection after filterBounds(point).sort('CLOUD_COVER')
\* .limit(3) has at most three images (three when at least three intersect
\* the point), all of them images of the dataset that intersect the point, in
\* ascending CLOUD_COVER order, and no image intersecting the point that is
\* left out has a lower CLOUD_COVER than an image that is kept.
C14_ThreeLeastCloudyAtPoint ==
    \A r \in DOMAIN requests : IsElement(requests[r].o) =>
        LET coll == requests[r].collection
            kept == { coll[j].id : j \in DOMAIN coll }
        IN  /\ Len(coll) <= 3
            /\ Len(coll) = IF Cardinality(AtPoint) < 3 THEN Cardinality(AtPoint) ELSE 3
            /\ Cardinality(kept) = Len(coll)
            /\ kept \subseteq AtPoint
            /\ \A j \in DOMAIN coll :
                coll[j].CLOUD_COVER = scenes[coll[j].id].CLOUD_COVER
            /\ \A j, k \in DOMAIN coll :
                j < k => coll[j].CLOUD_COVER <= coll[k].CLOUD_COVER
            /\ \A i \in AtPoint \ kept : \A j \in DOMAIN coll :
                scenes[i].CLOUD_COVER >= coll[j].CLOUD_COVER

\* a layer of the NDVI cell was added from a dataset of four images at the
\* point, the cloudiest first: it is left out, the three others are kept
C14_Witness ==
    /\ \E r \in DOMAIN requests :
        /\ IsElement(requests[r].o)
        /\ Len(requests[r].collection) = 3
        /\ \A j \in DOMAIN requests[r].collection : requests[r].collection[j].id # 1
    /\ Cardinality(AtPoint) = 4
    /\ scenes[1].CLOUD_COVER > scenes[2].CLOUD_COVER

\* the kernel is at a statement that maps a function over a collection
AtMap == HasStmt /\ Stmt.k = "construct" /\ MappedBy(Stmt.a) # ""

\* the library module the functions build their expressions with
Library == { "ee" }

\* C15: the mapped functions (addTime, conditional, calNDVI and the two
\* lambdas) modify no variable outside the function and print nothing; each
\* only returns an expression built from its image argument and constants
\* (with the functions of the ee module).  A statement that maps one of them
\* binds its target, prints nothing and sends nothing.
C15_MappedFunctionsHaveNoEffect ==
    /\ [](\A f \in { "addTime", "lambda addTime", "conditional", "calNDVI",
                       "lambda NDVI" } :
            /\ Body(f).globals = { }
            /\ Body(f).prints = << >>
            /\ Body(f).names \subseteq { Body(f).parameter } \cup Library)
    /\ [][ AtMap =>
            /\ printed' = printed
            /\ bindings' = bindings \cup { Stmt.v }
            /\ log' = log /\ maps' = maps /\ Map' = Map
            /\ requests' = requests /\ inflight' = inflight
            /\ displayed' = displayed ]_vars

\* the lambda was just mapped into ndvi_images, in a kernel that has run the
\* cells mapping addTime, the first lambda and calNDVI
C15_Witness ==
    /\ JustRan("construct")
    /\ MappedBy(Cell(nb, cell)[pc - 1].a) = "lambda NDVI"
    /\ { "addTime", "conditional", "calNDVI", "ndvi_images", "first" } \subseteq bindings
    /\ Len(printed) >= 2

\* C16: the cost image assigns cost 1 to the land-cover classes 60, 80, 110,
\* 140, cost 2 to the classes 40, 90, 120, 130, 170 and cost 3 to the classes
\* 50, 70, 150, 160: for every pixel whose cover class is in one of the lists
\* the value of cost is exactly the cost of that list (and the pixel is valid
\* where the cover pixel is).
C16_CostOfClass ==
    Evaluated("cost") =>
        \A i \in DOMAIN mapped[1].cover.px :
            LET class == mapped[1].cover.px[i].value
                pixel == mapped[1].value.px[i]
            IN  /\ class \in { 60, 80, 110, 140 } => pixel.value = 1
                /\ class \in { 40, 90, 120, 130, 170 } => pixel.value = 2
                /\ class \in { 50, 70, 150, 160 } => pixel.value = 3
                /\ pixel.mask = mapped[1].cover.px[i].mask

\* cost was evaluated over a pixel of class 170 and a pixel of class 160
C16_Witness ==
    /\ Evaluated("cost")
    /\ Len(mapped[1].cover.px) = 2
    /\ mapped[1].cover.px[1].value = 170 /\ mapped[1].cover.px[1].mask = 1
    /\ mapped[1].cover.px[2].value = 160 /\ mapped[1].cover.px[2].mask = 1

C18_HotspotsAbove303 ==
    Evaluated("hotspots") =>
        /\ mapped[1].value.band = "hotspots"
        /\ \A i \in DOMAIN pixels :
            LET hot == mapped[1].kelvin.px[i].mask = 1
                            /\ mapped[1].kelvin.px[i].value > 303
            IN  /\ hot => mapped[1].value.px[i] = [value |-> 1, mask |-> 1]
                /\ ~hot => mapped[1].value.px[i].mask = 0
                /\ mapped[1].kelvin.px[i].mask = 1 <=>
                        (pixels[i].mask = 1 /\ pixels[i].inside)

\* hotspots was evaluated over a pixel at 303 and a pixel at 304, both valid
\* and in the area of interest
C18_Witness ==
    /\ Evaluated("hotspots")
    /\ \E i \in DOMAIN pixels :
        pixels[i].value = 303 /\ pixels[i].mask = 1 /\ pixels[i].inside
    /\ \E i \in DOMAIN pixels :
        pixels[i].value = 304 /\ pixels[i].mask = 1 /\ pixels[i].inside

====
